---- MODULE Spec2Model ----
(***************************************************************************)
(* The digital-wellness data-entry form.  The repository holds two scripts, *)
(* each a program of its own:                                              *)
(*   - src/input.py: the DataManager (apps_data) and the two Dash          *)
(*     callbacks that drive it, add_app_callback and submit_data_callback;  *)
(*   - src/data_input_dashboard.py: the older form, a module-level         *)
(*     apps_data with the callbacks add_app and update_collection.         *)
(* A behaviour runs one of them (script) and never switches.  Both hand a  *)
(* document to MongoDBManager.update_mongodb.                              *)
(*                                                                         *)
(* A callback is one atomic action.  Its arguments are the values of the   *)
(* HTTP request the Dash server receives; they are drawn from the small    *)
(* sets below.  Python values are modelled as follows.                     *)
(*   - a numeric form field: a record [t, i, s] with t one of "None",      *)
(*     "int" (value i), "float" (value i/10) or "str" (characters s);      *)
(*   - a text field: a record [t, s] with t "None" or "str" (text s);      *)
(*   - a list index is 0-based as in Python; TLA+ sequences are 1-based.   *)
(***************************************************************************)
EXTENDS Integers, Sequences, FiniteSets, TLC

VARIABLES
    script,      \* the script that runs: "input" or "dashboard"
    apps_data,   \* its apps_data: the list of app entries
    call,        \* the callback invocation handled last, with its arguments
    before,      \* apps_data when that invocation started
    result,      \* what that invocation returned or raised
    writes       \* the update_mongodb calls that invocation issued

vars == <<script, apps_data, call, before, result, writes>>

-----------------------------------------------------------------------------
(* Bounds of the model *)

\* longest apps_data explored
MaxApps == 3
\* longest apps_data explored by the form-validation specification
MaxFormApps == 1
\* most remove buttons a request reports (length of remove_clicks)
MaxButtons == 3

(* Range limits of add_app_callback *)
MaxHours == 24
MaxMinutes == 59
MaxSeconds == 59

-----------------------------------------------------------------------------
(* Python values *)

None == [t |-> "None", i |-> 0, s |-> <<>>]
PyInt(n) == [t |-> "int", i |-> n, s |-> <<>>]
\* the float tenths/10
PyFloat(tenths) == [t |-> "float", i |-> tenths, s |-> <<>>]
PyStr(chars) == [t |-> "str", i |-> 0, s |-> chars]

NoText == [t |-> "None", s |-> ""]
Text(x) == [t |-> "str", s |-> x]

Digits == <<"0", "1", "2", "3", "4", "5", "6", "7", "8", "9">>
IsDigit(c) == \E d \in 1..10 : Digits[d] = c
DigitValue(c) == (CHOOSE d \in 1..10 : Digits[d] = c) - 1
IsSpace(c) == c = " "

RECURSIVE LStrip(_)
LStrip(cs) ==
    IF cs # <<>> /\ IsSpace(Head(cs)) THEN LStrip(Tail(cs)) ELSE cs

RECURSIVE RStrip(_)
RStrip(cs) ==
    IF cs # <<>> /\ IsSpace(cs[Len(cs)])
    THEN RStrip(SubSeq(cs, 1, Len(cs) - 1))
    ELSE cs

\* str.strip() as int() applies it to its argument
Strip(cs) == RStrip(LStrip(cs))

HasSign(cs) == cs # <<>> /\ Head(cs) \in {"+", "-"}
Unsigned(cs) == IF HasSign(cs) THEN Tail(cs) ELSE cs

RECURSIVE DecimalValue(_)
DecimalValue(cs) ==
    IF cs = <<>> THEN 0
    ELSE 10 * DecimalValue(SubSeq(cs, 1, Len(cs) - 1)) + DigitValue(cs[Len(cs)])

\* int(str) succeeds on optional blanks, an optional sign and decimal digits
StrIsInt(cs) ==
    /\ Unsigned(Strip(cs)) # <<>>
    /\ \A k \in 1..Len(Unsigned(Strip(cs))) : IsDigit(Unsigned(Strip(cs))[k])

StrToInt(cs) ==
    IF HasSign(Strip(cs)) /\ Head(Strip(cs)) = "-"
    THEN 0 - DecimalValue(Unsigned(Strip(cs)))
    ELSE DecimalValue(Unsigned(Strip(cs)))

\* int(float) truncates towards zero
Trunc(tenths) == IF tenths >= 0 THEN tenths \div 10 ELSE 0 - ((0 - tenths) \div 10)

\* int(x) raises ValueError
IntRaises(x) == x.t = "str" /\ ~StrIsInt(x.s)

\* int(x) when it does not raise
IntOf(x) ==
    CASE x.t = "int" -> x.i
      [] x.t = "float" -> Trunc(x.i)
      [] x.t = "str" -> StrToInt(x.s)

\* int(x) if x is not None else 0
IntOrZero(x) == IF x.t = "None" THEN 0 ELSE IntOf(x)
ConvRaises(x) == x.t # "None" /\ IntRaises(x)

\* x or 0, for an int x
OrZero(n) == IF n = 0 THEN 0 ELSE n

\* not app_name
Falsy(name) == name.t = "None" \/ name.s = ""

-----------------------------------------------------------------------------
(* DataManager *)

\* parse_screen_time without the seconds, as the older form has it
parse_screen_time_no_seconds(hours, minutes, seconds) ==
    (hours * 3600) + (minutes * 60)

parse_screen_time(hours, minutes, seconds) ==
    (hours * 3600) + (minutes * 60) + seconds

\* the entry add_app builds
app_data(app_name, hours, minutes, seconds, opens) ==
    [name |-> app_name,
     screenTime |-> parse_screen_time(OrZero(hours), OrZero(minutes), OrZero(seconds)),
     opens |-> OrZero(opens)]

\* add_app putting the entry first
add_app_first(apps, app_name, hours, minutes, seconds, opens) ==
    <<app_data(app_name, hours, minutes, seconds, opens)>> \o apps

\* apps_data after add_app
add_app(apps, app_name, hours, minutes, seconds, opens) ==
    Append(apps, app_data(app_name, hours, minutes, seconds, opens))

get_apps_data(apps) == apps

\* del apps[index + 1]
DelAfter(apps, index) ==
    [k \in 1..(Len(apps) - 1) |-> IF k <= index + 1 THEN apps[k] ELSE apps[k + 1]]

\* del apps[index], for an index in range
DelAt(apps, index) ==
    [k \in 1..(Len(apps) - 1) |-> IF k <= index THEN apps[k] ELSE apps[k + 1]]

\* remove_app without the lower bound: del wraps a negative index
remove_app_no_lower_bound(apps, index) ==
    IF index < Len(apps) /\ 0 - Len(apps) <= index
    THEN DelAt(apps, IF index < 0 THEN Len(apps) + index ELSE index)
    ELSE apps

\* apps_data after remove_app
remove_app(apps, index) ==
    IF 0 <= index /\ index < Len(apps) THEN DelAt(apps, index) ELSE apps

\* sum(app["screenTime"] for app in apps), left to right from 0
RECURSIVE SumScreenTime(_)
SumScreenTime(apps) ==
    IF apps = <<>> THEN 0
    ELSE SumScreenTime(SubSeq(apps, 1, Len(apps) - 1)) + apps[Len(apps)].screenTime

\* sum(app["opens"] for app in apps)
RECURSIVE SumOpens(_)
SumOpens(apps) ==
    IF apps = <<>> THEN 0
    ELSE SumOpens(SubSeq(apps, 1, Len(apps) - 1)) + apps[Len(apps)].opens

\* d[key] = value on a dict
DictSet(d, key, value) ==
    [x \in (DOMAIN d) \cup {key} |-> IF x = key THEN value ELSE d[x]]

EmptyDict == [x \in {} |-> 0]

\* the mapping with the first entry of a name kept
RECURSIVE AppsDictFirstWins(_)
AppsDictFirstWins(apps) ==
    IF apps = <<>> THEN EmptyDict
    ELSE DictSet(AppsDictFirstWins(Tail(apps)),
                 Head(apps).name,
                 [screenTime |-> Head(apps).screenTime, opens |-> Head(apps).opens])

\* {app["name"]: {...} for app in apps}: later entries overwrite earlier keys
RECURSIVE AppsDict(_)
AppsDict(apps) ==
    IF apps = <<>> THEN EmptyDict
    ELSE DictSet(AppsDict(SubSeq(apps, 1, Len(apps) - 1)),
                 apps[Len(apps)].name,
                 [screenTime |-> apps[Len(apps)].screenTime,
                  opens |-> apps[Len(apps)].opens])

\* the total of a field over the values of a dict
RECURSIVE DictTotal(_, _, _)
DictTotal(d, keys, f) ==
    IF keys = {} THEN 0
    ELSE LET key == CHOOSE x \in keys : TRUE
         IN  (IF f = "opens" THEN d[key].opens ELSE d[key].screenTime)
             + DictTotal(d, keys \ {key}, f)

\* the document with the summary taken from the apps mapping
prepare_submission_data_from_mapping(apps, date_input) ==
    [date |-> date_input,
     summary |-> [screenTime |-> DictTotal(AppsDict(apps), DOMAIN AppsDict(apps), "screenTime"),
                  unlocks |-> DictTotal(AppsDict(apps), DOMAIN AppsDict(apps), "opens")],
     apps |-> AppsDict(apps)]

prepare_submission_data(apps, date_input) ==
    [date |-> date_input,
     summary |-> [screenTime |-> SumScreenTime(apps), unlocks |-> SumOpens(apps)],
     apps |-> AppsDict(apps)]

-----------------------------------------------------------------------------
(* add_app_callback *)

ErrName == "Error: App name cannot be empty."
ErrHours == "Error: Hours must be between 0 and 24."
ErrMinutes == "Error: Minutes must be between 0 and 59."
ErrSeconds == "Error: Seconds must be between 0 and 59."
ErrOpens == "Error: Opens must be a non-negative integer."
ErrValue == "Error: Hours, minutes, seconds, and opens must be valid integers."

\* the validation without the upper limit of the hours
ValidationErrorNoHoursLimit(app_name, hours, minutes, seconds, opens) ==
    IF Falsy(app_name) THEN ErrName
    ELSE IF \/ ConvRaises(hours) \/ ConvRaises(minutes)
            \/ ConvRaises(seconds) \/ ConvRaises(opens) THEN ErrValue
    ELSE IF ~(0 <= IntOrZero(hours)) THEN ErrHours
    ELSE IF ~(0 <= IntOrZero(minutes) /\ IntOrZero(minutes) <= MaxMinutes) THEN ErrMinutes
    ELSE IF ~(0 <= IntOrZero(seconds) /\ IntOrZero(seconds) <= MaxSeconds) THEN ErrSeconds
    ELSE IF IntOrZero(opens) < 0 THEN ErrOpens
    ELSE ""

\* the validation converting and checking one field after the other
ValidationErrorFieldByField(app_name, hours, minutes, seconds, opens) ==
    IF Falsy(app_name) THEN ErrName
    ELSE IF ConvRaises(hours) THEN ErrValue
    ELSE IF ~(0 <= IntOrZero(hours) /\ IntOrZero(hours) <= MaxHours) THEN ErrHours
    ELSE IF ConvRaises(minutes) THEN ErrValue
    ELSE IF ~(0 <= IntOrZero(minutes) /\ IntOrZero(minutes) <= MaxMinutes) THEN ErrMinutes
    ELSE IF ConvRaises(seconds) THEN ErrValue
    ELSE IF ~(0 <= IntOrZero(seconds) /\ IntOrZero(seconds) <= MaxSeconds) THEN ErrSeconds
    ELSE IF ConvRaises(opens) THEN ErrValue
    ELSE IF IntOrZero(opens) < 0 THEN ErrOpens
    ELSE ""

\* the message the validation of an Add App click returns, "" when it passes
ValidationError(app_name, hours, minutes, seconds, opens) ==
    IF Falsy(app_name) THEN ErrName
    ELSE IF \/ ConvRaises(hours) \/ ConvRaises(minutes)
            \/ ConvRaises(seconds) \/ ConvRaises(opens) THEN ErrValue
    ELSE IF ~(0 <= IntOrZero(hours) /\ IntOrZero(hours) <= MaxHours) THEN ErrHours
    ELSE IF ~(0 <= IntOrZero(minutes) /\ IntOrZero(minutes) <= MaxMinutes) THEN ErrMinutes
    ELSE IF ~(0 <= IntOrZero(seconds) /\ IntOrZero(seconds) <= MaxSeconds) THEN ErrSeconds
    ELSE IF IntOrZero(opens) < 0 THEN ErrOpens
    ELSE ""

\* the children built from the list: one Li with a Remove button per entry
Rendered(apps) ==
    [kind |-> "children", msg |-> "",
     items |-> [k \in 1..Len(apps) |->
                  [index |-> k - 1, name |-> apps[k].name,
                   screenTime |-> apps[k].screenTime, opens |-> apps[k].opens]]]

ErrorItem(message) == [kind |-> "children", msg |-> message, items |-> <<>>]
Raised(exception) == [kind |-> exception, msg |-> "", items |-> <<>>]
TextOutput(message) == [kind |-> "text", msg |-> message, items |-> <<>>]

\* remove_clicks[index] is defined (Python wraps a negative index once)
InList(list, index) == 0 - Len(list) <= index /\ index < Len(list)
ListAt(list, index) == IF index >= 0 THEN list[index + 1] ELSE list[Len(list) + index + 1]

\* apps_data after the callback
AppsAfterAdd(r, apps) ==
    IF r.triggered.t = "None" THEN apps
    ELSE IF r.triggered.t = "remove" THEN
        IF InList(r.remove_clicks, r.triggered.index)
           /\ ListAt(r.remove_clicks, r.triggered.index) > 0
        THEN remove_app(apps, r.triggered.index)
        ELSE apps
    ELSE IF r.add_clicks > 0
            /\ ValidationError(r.app_name, r.hours, r.minutes, r.seconds, r.opens) = ""
    THEN add_app(apps, r.app_name.s, IntOrZero(r.hours), IntOrZero(r.minutes),
                 IntOrZero(r.seconds), IntOrZero(r.opens))
    ELSE apps

\* what the callback returns or raises
ResultOfAdd(r, apps) ==
    IF r.triggered.t = "None" THEN Raised("PreventUpdate")
    ELSE IF r.triggered.t = "remove" THEN
        IF ~InList(r.remove_clicks, r.triggered.index) THEN Raised("IndexError")
        ELSE Rendered(get_apps_data(AppsAfterAdd(r, apps)))
    ELSE IF r.add_clicks > 0
            /\ ValidationError(r.app_name, r.hours, r.minutes, r.seconds, r.opens) # ""
    THEN ErrorItem(ValidationError(r.app_name, r.hours, r.minutes, r.seconds, r.opens))
    ELSE Rendered(get_apps_data(AppsAfterAdd(r, apps)))

add_app_callback(r) ==
    /\ apps_data' = AppsAfterAdd(r, apps_data)
    /\ result' = ResultOfAdd(r, apps_data)
    /\ call' = [cb |-> "add_app_callback", args |-> r]
    /\ before' = apps_data
    /\ writes' = <<>>
    /\ UNCHANGED script

-----------------------------------------------------------------------------
(* submit_data_callback *)

ErrCollection == "Error: Please select a collection."
ErrDate == "Error: Please enter a valid date."
Submitted == "Data submitted successfully!"
\* f"Error: {str(e)}" for the exception insert_one raised
ErrStore == "Error: <insert_one exception>"

\* the calls made when the date is not looked at
WritesOfSubmitNoDateCheck(r, apps) ==
    IF r.n_clicks = 0 \/ Falsy(r.collection_name) THEN <<>>
    ELSE << [database |-> "digital_wellness",
             collection |-> r.collection_name.s,
             document |-> prepare_submission_data(apps, r.date_input.s),
             raised |-> r.insert_raises] >>

\* the update_mongodb calls the callback makes
WritesOfSubmit(r, apps) ==
    IF r.n_clicks = 0 \/ Falsy(r.collection_name) \/ Falsy(r.date_input) THEN <<>>
    ELSE << [database |-> "digital_wellness",
             collection |-> r.collection_name.s,
             document |-> prepare_submission_data(apps, r.date_input.s),
             raised |-> r.insert_raises] >>

ResultOfSubmit(r) ==
    IF r.n_clicks = 0 THEN Raised("PreventUpdate")
    ELSE IF Falsy(r.collection_name) THEN TextOutput(ErrCollection)
    ELSE IF Falsy(r.date_input) THEN TextOutput(ErrDate)
    ELSE IF r.insert_raises THEN TextOutput(ErrStore)
    ELSE TextOutput(Submitted)

\* the callback emptying the list once the insert succeeded
submit_data_callback_clearing(r) ==
    /\ apps_data' = IF WritesOfSubmit(r, apps_data) # <<>> /\ ~r.insert_raises
                    THEN <<>> ELSE apps_data
    /\ result' = ResultOfSubmit(r)
    /\ writes' = WritesOfSubmit(r, apps_data)
    /\ call' = [cb |-> "submit_data_callback", args |-> r]
    /\ before' = apps_data
    /\ UNCHANGED script

submit_data_callback(r) ==
    /\ apps_data' = apps_data
    /\ result' = ResultOfSubmit(r)
    /\ writes' = WritesOfSubmit(r, apps_data)
    /\ call' = [cb |-> "submit_data_callback", args |-> r]
    /\ before' = apps_data
    /\ UNCHANGED script

-----------------------------------------------------------------------------
(* data_input_dashboard.py.  Its number inputs are taken to hold None or   *)
(* an integer.                                                             *)

\* x or 0, for None or an int
NoneOrZero(x) == IF x.t = "None" THEN 0 ELSE OrZero(x.i)

dashboard_parse_screen_time(hours, minutes) == (hours * 3600) + (minutes * 60)

dashboard_app_data(r) ==
    [name |-> r.app_name.s,
     screenTime |-> dashboard_parse_screen_time(NoneOrZero(r.hours), NoneOrZero(r.minutes)),
     notifications |-> NoneOrZero(r.notifications),
     opens |-> NoneOrZero(r.opens)]

\* add_app raises PreventUpdate
DashboardPrevents(r) ==
    \/ r.n_clicks = 0
    \/ Falsy(r.app_name)
    \/ (r.hours.t = "None" /\ r.minutes.t = "None")

\* the Li texts add_app returns
DashboardRendered(apps) ==
    [kind |-> "children", msg |-> "",
     items |-> [k \in 1..Len(apps) |->
                  [name |-> apps[k].name, screenTime |-> apps[k].screenTime,
                   notifications |-> apps[k].notifications, opens |-> apps[k].opens]]]

dashboard_add_app(r) ==
    /\ apps_data' = IF DashboardPrevents(r) THEN apps_data
                    ELSE Append(apps_data, dashboard_app_data(r))
    /\ result' = IF DashboardPrevents(r) THEN Raised("PreventUpdate")
                 ELSE DashboardRendered(apps_data')
    /\ call' = [cb |-> "add_app", args |-> r]
    /\ before' = apps_data
    /\ writes' = <<>>
    /\ UNCHANGED script

\* sum(app["notifications"] for app in apps_data)
RECURSIVE SumNotifications(_)
SumNotifications(apps) ==
    IF apps = <<>> THEN 0
    ELSE SumNotifications(SubSeq(apps, 1, Len(apps) - 1)) + apps[Len(apps)].notifications

RECURSIVE DashboardAppsDict(_)
DashboardAppsDict(apps) ==
    IF apps = <<>> THEN EmptyDict
    ELSE DictSet(DashboardAppsDict(SubSeq(apps, 1, Len(apps) - 1)),
                 apps[Len(apps)].name,
                 [screenTime |-> apps[Len(apps)].screenTime,
                  notifications |-> apps[Len(apps)].notifications,
                  opens |-> apps[Len(apps)].opens])

\* new_data of update_collection
new_data(apps, date_input) ==
    [date |-> date_input,
     summary |-> [screenTime |-> SumScreenTime(apps),
                  notifications |-> SumNotifications(apps),
                  unlocks |-> SumOpens(apps)],
     apps |-> DashboardAppsDict(apps)]

\* f"Success: Data inserted into {collection_name}."
Inserted(collection_name) == <<"Success: Data inserted into ", collection_name, ".">>

WritesOfUpdate(r, apps) ==
    IF r.n_clicks = 0 \/ Falsy(r.collection_name) \/ Falsy(r.date_input) THEN <<>>
    ELSE << [database |-> "digital_wellness",
             collection |-> r.collection_name.s,
             document |-> new_data(apps, r.date_input.s),
             raised |-> r.insert_raises] >>

ResultOfUpdate(r) ==
    IF r.n_clicks = 0 THEN Raised("PreventUpdate")
    ELSE IF Falsy(r.collection_name) THEN TextOutput(ErrCollection)
    ELSE IF Falsy(r.date_input) THEN TextOutput(ErrDate)
    ELSE IF r.insert_raises THEN TextOutput(ErrStore)
    ELSE [kind |-> "text", msg |-> "", items |-> Inserted(r.collection_name.s)]

update_collection(r) ==
    /\ apps_data' = apps_data
    /\ result' = ResultOfUpdate(r)
    /\ writes' = WritesOfUpdate(r, apps_data)
    /\ call' = [cb |-> "update_collection", args |-> r]
    /\ before' = apps_data
    /\ UNCHANGED script

-----------------------------------------------------------------------------
(* The requests explored *)

Form(app_name, hours, minutes, seconds, opens) ==
    [app_name |-> app_name, hours |-> hours, minutes |-> minutes,
     seconds |-> seconds, opens |-> opens]

BlankForm == Form(NoText, None, None, None, None)

\* the forms of the session specification: four that pass, eight that do not
SessionForms ==
    { Form(Text("Brave"), PyInt(1), PyInt(30), PyInt(0), PyInt(5)),
      Form(Text("Brave"), None, None, PyInt(10), None),
      Form(Text("Mail"), None, PyInt(10), None, PyInt(2)),
      Form(Text("Mail"), PyInt(24), PyInt(59), PyInt(59), PyInt(1)),
      Form(Text(""), PyInt(1), PyInt(30), PyInt(0), PyInt(5)),
      Form(NoText, None, None, None, None),
      Form(Text("Brave"), PyInt(25), PyInt(30), PyInt(0), PyInt(5)),
      Form(Text("Brave"), PyInt(0 - 1), PyInt(30), PyInt(0), PyInt(5)),
      Form(Text("Mail"), PyInt(1), PyInt(60), PyInt(0), PyInt(2)),
      Form(Text("Mail"), PyInt(1), PyInt(10), PyInt(60), PyInt(2)),
      Form(Text("Mail"), PyInt(1), PyInt(10), PyInt(0), PyInt(0 - 1)),
      Form(Text("Brave"), PyStr(<<"a", "b", "c">>), PyInt(30), PyInt(0), PyInt(5)) }

\* the field values of the form-validation specification
FormNames == {NoText, Text(""), Text("Brave")}
FormHours == {None, PyInt(25), PyFloat(245), PyStr(<<"a", "b", "c">>)}
FormMinutes == {PyStr(<<" ", "5", "9", " ">>), PyInt(60), PyStr(<<"1", ".", "5">>)}
FormSeconds == {PyInt(7), PyInt(0 - 1), PyStr(<<>>)}
FormOpens == {None, PyInt(0 - 1), PyFloat(0 - 5), PyStr(<<"x">>)}

ValidationForms ==
    { Form(n, h, m, s, o) : n \in FormNames, h \in FormHours, m \in FormMinutes,
                            s \in FormSeconds, o \in FormOpens }

Trigger(kind, index) == [t |-> kind, index |-> index]

AddRequest(add_clicks, remove_clicks, triggered, form) ==
    [add_clicks |-> add_clicks, remove_clicks |-> remove_clicks,
     triggered |-> triggered, app_name |-> form.app_name, hours |-> form.hours,
     minutes |-> form.minutes, seconds |-> form.seconds, opens |-> form.opens]

\* a click on Add App; and the request that names the button although it
\* was never clicked (add_clicks = 0)
AddClicks(forms) ==
    { AddRequest(1, <<>>, Trigger("add", 0), f) : f \in forms }
    \cup { AddRequest(0, <<>>, Trigger("add", 0), f) : f \in {BlankForm} }

\* the remove_clicks of a page with n remove buttons, the one at position
\* pos (1-based, 0 for none) clicked c times
Clicks(n, pos, c) == [k \in 1..n |-> IF k = pos THEN c ELSE 0]

\* a request triggered by the remove button with id index, on a page showing
\* n buttons; index -1 and index n are not ids the page holds
RemoveClicks(maxButtons) ==
    { AddRequest(0, Clicks(n, IF i >= 0 THEN i + 1 ELSE n + i + 1, c),
                 Trigger("remove", i), BlankForm) :
        n \in 0..maxButtons, i \in (0 - 1)..maxButtons, c \in {0, 1} }

\* the call Dash makes when the page loads: nothing triggered
PageLoad == { AddRequest(0, <<>>, Trigger("None", 0), BlankForm) }

SubmitRequest(n_clicks, date_input, collection_name, insert_raises) ==
    [n_clicks |-> n_clicks, date_input |-> date_input,
     collection_name |-> collection_name, insert_raises |-> insert_raises]

SubmitClicks ==
    { SubmitRequest(n, d, c, x) :
        n \in {0, 1}, d \in {NoText, Text(""), Text("2024-01-01")},
        c \in {NoText, Text(""), Text("user1")}, x \in BOOLEAN }

DashboardRequest(n_clicks, app_name, hours, minutes, notifications, opens) ==
    [n_clicks |-> n_clicks, app_name |-> app_name, hours |-> hours,
     minutes |-> minutes, notifications |-> notifications, opens |-> opens]

DashboardClicks ==
    { DashboardRequest(1, Text("Brave"), PyInt(1), PyInt(30), PyInt(3), PyInt(5)),
      DashboardRequest(1, Text("Brave"), None, PyInt(10), None, None),
      DashboardRequest(1, Text("Mail"), PyInt(2), None, PyInt(1), PyInt(2)),
      DashboardRequest(0, Text("Mail"), PyInt(2), None, PyInt(1), PyInt(2)),
      DashboardRequest(1, Text(""), PyInt(1), PyInt(30), PyInt(3), PyInt(5)),
      DashboardRequest(1, NoText, PyInt(1), PyInt(30), PyInt(3), PyInt(5)),
      DashboardRequest(1, Text("Mail"), None, None, PyInt(1), PyInt(2)) }

-----------------------------------------------------------------------------
(* Specifications *)

NoCall == [cb |-> "none", args |-> <<>>]

Scripts == {"input", "dashboard"}

Init ==
    /\ script \in Scripts
    /\ apps_data = <<>>
    /\ call = NoCall
    /\ before = <<>>
    /\ result = Raised("none")
    /\ writes = <<>>

AddApp ==
    /\ script = "input"
    /\ \E r \in AddClicks(SessionForms) :
          add_app_callback(r) /\ Len(apps_data') <= MaxApps

RemoveApp ==
    /\ script = "input"
    /\ \E r \in RemoveClicks(MaxButtons) : add_app_callback(r)

LoadPage ==
    /\ script = "input"
    /\ \E r \in PageLoad : add_app_callback(r)

Submit ==
    /\ script = "input"
    /\ \E r \in SubmitClicks : submit_data_callback(r)

DashboardAdd ==
    /\ script = "dashboard"
    /\ \E r \in DashboardClicks :
          dashboard_add_app(r) /\ Len(apps_data') <= MaxApps

DashboardSubmit ==
    /\ script = "dashboard"
    /\ \E r \in SubmitClicks : update_collection(r)

Next ==
    \/ AddApp
    \/ RemoveApp
    \/ LoadPage
    \/ Submit
    \/ DashboardAdd
    \/ DashboardSubmit

Spec == Init /\ [][Next]_vars

\* the same program, its Add App clicks drawn from ValidationForms
ValidateApp ==
    /\ script = "input"
    /\ \E r \in AddClicks(ValidationForms) :
          add_app_callback(r) /\ Len(apps_data') <= MaxFormApps

RemoveFormApp ==
    /\ script = "input"
    /\ \E r \in RemoveClicks(MaxFormApps) : add_app_callback(r)

NextForm ==
    \/ ValidateApp
    \/ RemoveFormApp
    \/ LoadPage
    \/ Submit

InitForm == Init /\ script = "input"

SpecForm == InitForm /\ [][NextForm]_vars

-----------------------------------------------------------------------------
(* What the properties speak about *)

\* the invocation handled last was a click on Add App of input.py
AddClicked ==
    /\ call.cb = "add_app_callback"
    /\ call.args.triggered.t = "add"
    /\ call.args.add_clicks > 0

\* the invocation handled last was triggered by a remove button whose click
\* count the request carries
RemoveTriggered ==
    /\ call.cb = "add_app_callback"
    /\ call.args.triggered.t = "remove"
    /\ InList(call.args.remove_clicks, call.args.triggered.index)

RemoveIndex == call.args.triggered.index
RemoveCount == ListAt(call.args.remove_clicks, call.args.triggered.index)

\* the invocation handled last was a click on Submit Data, of either script
SubmitClicked ==
    /\ call.cb \in {"submit_data_callback", "update_collection"}
    /\ call.args.n_clicks > 0

\* a form field as the integer the specification reads it as
Unparseable(x) == x.t = "str" /\ ~StrIsInt(x.s)
Absent(x) == x.t = "None"
Value(x) == IF Absent(x) THEN 0 ELSE IntOf(x)

NameMissing(r) == r.app_name.t = "None" \/ r.app_name.s = ""
NumericFields(r) == <<r.hours, r.minutes, r.seconds, r.opens>>
AnyUnparseable(r) == \E k \in 1..4 : Unparseable(NumericFields(r)[k])

\* field k (1 hours, 2 minutes, 3 seconds, 4 opens) holds an integer out of range
OutOfRange(r, k) ==
    /\ ~Unparseable(NumericFields(r)[k])
    /\ CASE k = 1 -> Value(r.hours) < 0 \/ Value(r.hours) > 24
         [] k = 2 -> Value(r.minutes) < 0 \/ Value(r.minutes) > 59
         [] k = 3 -> Value(r.seconds) < 0 \/ Value(r.seconds) > 59
         [] k = 4 -> Value(r.opens) < 0

FieldInvalid(r, k) == Unparseable(NumericFields(r)[k]) \/ OutOfRange(r, k)

\* the input fails validation
InvalidInput(r) == NameMissing(r) \/ \E k \in 1..4 : FieldInvalid(r, k)

RangeError == <<ErrHours, ErrMinutes, ErrSeconds, ErrOpens>>
ErrorMessages == {ErrName, ErrHours, ErrMinutes, ErrSeconds, ErrOpens, ErrValue}

\* the result is an error message shown in the list
ErrorShown == result.kind = "children" /\ result.msg \in ErrorMessages

-----------------------------------------------------------------------------
(* C1 *)

-----------------------------------------------------------------------------
(* C2 *)

RemoveCalled == RemoveTriggered /\ RemoveCount > 0

\* C2: remove_app with an index below 0 or at or beyond the length of the
\* list raises nothing and leaves the list as it was: the callback returns
\* the rendering of the unchanged list.
StaleRemoveIsNoOp ==
    (RemoveCalled /\ (RemoveIndex < 0 \/ RemoveIndex >= Len(before)))
        => /\ apps_data = before
           /\ result.kind = "children"
           /\ result.msg = ""
           /\ Len(result.items) = Len(before)

\* a remove button of a stale page: its index is beyond a non-empty list
StaleRemoveWitness ==
    /\ RemoveCalled
    /\ RemoveIndex >= Len(before)
    /\ before # <<>>
    /\ apps_data = before

-----------------------------------------------------------------------------
(* C3 *)

\* xs is ys with the element at position p (1-based) taken out
Without(ys, p) ==
    [k \in 1..(Len(ys) - 1) |-> IF k < p THEN ys[k] ELSE ys[k + 1]]

\* the name of the form as text
NameOf(r) == r.app_name.s

\* C3: the list keeps insertion order.  An accepted Add App click puts its
\* entry after all the entries held, which keep their positions, also when
\* an entry of the same name is held already; every other invocation leaves
\* the list as it was or takes one entry out, the others keeping their order.
InsertionOrderKept ==
    script = "input" =>
        /\ (AddClicked /\ ~InvalidInput(call.args)) =>
              /\ Len(apps_data) = Len(before) + 1
              /\ SubSeq(apps_data, 1, Len(before)) = before
              /\ apps_data[Len(apps_data)].name = NameOf(call.args)
        /\ ~(AddClicked /\ ~InvalidInput(call.args)) =>
              \/ apps_data = before
              \/ \E p \in 1..Len(before) : apps_data = Without(before, p)

\* a second entry named like the first is appended after it
InsertionOrderWitness ==
    /\ AddClicked
    /\ ~InvalidInput(call.args)
    /\ Len(before) = 1
    /\ Len(apps_data) = 2
    /\ apps_data[1] = before[1]
    /\ apps_data[2].name = apps_data[1].name
    /\ apps_data[2] # apps_data[1]

-----------------------------------------------------------------------------
(* C4 *)

\* the positions of a list
Positions(apps) == 1..Len(apps)

\* the total of f over a set of positions, one position at a time
RECURSIVE TotalOver(_, _, _)
TotalOver(apps, ps, f) ==
    IF ps = {} THEN 0
    ELSE LET p == CHOOSE q \in ps : TRUE
         IN  (IF f = "opens" THEN apps[p].opens ELSE apps[p].screenTime)
             + TotalOver(apps, ps \ {p}, f)

\* the document of the store write the invocation issued
Document == writes[1].document

\* C4: the document handed to the store at submission carries in
\* summary.screenTime the sum of screenTime over the entries held at that
\* moment and in summary.unlocks the sum of their opens (0 and 0 when no
\* entry is held); entries taken out earlier are not in the list and add
\* nothing.
SummaryIsSumOfStore ==
    writes # <<>> =>
        /\ Document.summary.screenTime
              = TotalOver(apps_data, Positions(apps_data), "screenTime")
        /\ Document.summary.unlocks
              = TotalOver(apps_data, Positions(apps_data), "opens")

\* a submission of three entries, after one entry had been taken out
SummaryWitness ==
    /\ script = "input"
    /\ writes # <<>>
    /\ Len(apps_data) = 3
    /\ Document.summary.screenTime = apps_data[1].screenTime
          + apps_data[2].screenTime + apps_data[3].screenTime
    /\ Document.summary.screenTime > 0
    /\ Document.summary.unlocks > 0

-----------------------------------------------------------------------------
(* C5 *)

NamesIn(apps) == { apps[p].name : p \in Positions(apps) }

\* the last position holding the name
LastOf(apps, name) ==
    CHOOSE p \in Positions(apps) :
        /\ apps[p].name = name
        /\ \A q \in Positions(apps) : apps[q].name = name => q <= p

\* C5: the apps mapping of the document has one key per name held, with
\* the screenTime and opens of the last entry of that name, while the
\* summary totals count every entry, those of a repeated name too.
LastWriteWins ==
    writes # <<>> =>
        /\ DOMAIN Document.apps = NamesIn(apps_data)
        /\ \A name \in NamesIn(apps_data) :
              /\ Document.apps[name].screenTime
                    = apps_data[LastOf(apps_data, name)].screenTime
              /\ Document.apps[name].opens
                    = apps_data[LastOf(apps_data, name)].opens
        /\ Document.summary.screenTime
              = TotalOver(apps_data, Positions(apps_data), "screenTime")
        /\ Document.summary.unlocks
              = TotalOver(apps_data, Positions(apps_data), "opens")

\* two entries of one name and different screen times are submitted: the
\* mapping holds the later one, the summary both
LastWriteWitness ==
    /\ script = "input"
    /\ writes # <<>>
    /\ Len(apps_data) = 2
    /\ apps_data[1].name = apps_data[2].name
    /\ apps_data[1].screenTime # apps_data[2].screenTime
    /\ Document.apps[apps_data[1].name].screenTime = apps_data[2].screenTime
    /\ Document.summary.screenTime = apps_data[1].screenTime + apps_data[2].screenTime

-----------------------------------------------------------------------------
(* C6 *)

\* the first invalid numeric field, 0 when there is none
FirstInvalid(r) ==
    IF \E k \in 1..4 : FieldInvalid(r, k)
    THEN CHOOSE k \in 1..4 :
            FieldInvalid(r, k) /\ \A j \in 1..(k - 1) : ~FieldInvalid(r, j)
    ELSE 0

\* the error of one field: the integer message when it is no integer, its
\* range message when it is out of range
FieldError(r, k) ==
    IF Unparseable(NumericFields(r)[k]) THEN ErrValue ELSE RangeError[k]

SeveralInvalid(r) ==
    Cardinality({k \in 1..4 : FieldInvalid(r, k)}) + (IF NameMissing(r) THEN 1 ELSE 0) >= 2

\* C6 as stated: the fields are checked in the order name, hours, minutes,
\* seconds, opens and the error reported is that of the first invalid one.
FirstFailingFieldReported ==
    (AddClicked /\ InvalidInput(call.args)) =>
        result.msg = IF NameMissing(call.args) THEN ErrName
                     ELSE FieldError(call.args, FirstInvalid(call.args))

\* the first numeric field that holds an integer out of range, 0 when none
FirstOutOfRange(r) ==
    IF \E k \in 1..4 : OutOfRange(r, k)
    THEN CHOOSE k \in 1..4 :
            OutOfRange(r, k) /\ \A j \in 1..(k - 1) : ~OutOfRange(r, j)
    ELSE 0

\* C6, amended: the name is checked first; then a numeric field that is no
\* integer, whichever it is, gives the integer message before any range is
\* looked at; only when all four are integers is the range message of the
\* first field out of range, in the order hours, minutes, seconds, opens,
\* returned.
IntegersBeforeRanges ==
    (AddClicked /\ InvalidInput(call.args)) =>
        /\ result.kind = "children"
        /\ result.msg =
              IF NameMissing(call.args) THEN ErrName
              ELSE IF AnyUnparseable(call.args) THEN ErrValue
              ELSE RangeError[FirstOutOfRange(call.args)]

\* hours out of range, minutes and opens no integers: the integer message
IntegersBeforeRangesWitness ==
    /\ AddClicked
    /\ ~NameMissing(call.args)
    /\ OutOfRange(call.args, 1)
    /\ Unparseable(call.args.minutes)
    /\ SeveralInvalid(call.args)
    /\ result.msg = ErrValue

-----------------------------------------------------------------------------
(* C7 *)

\* C7 as stated: a submit with an empty or absent date returns the date
\* message and writes nothing, whatever the collection selected, none
\* included; a submit with no collection selected writes nothing.
EmptyDateAlwaysDateError ==
    /\ (SubmitClicked /\ Falsy(call.args.date_input)) =>
          (result.msg = ErrDate /\ writes = <<>>)
    /\ (SubmitClicked /\ Falsy(call.args.collection_name)) => writes = <<>>

\* C7, amended: a submit with an empty or absent date, or with no
\* collection selected, writes nothing; the collection is looked at first,
\* so the message is the collection message when no collection is selected
\* and the date message when a collection is selected and the date is
\* empty or absent.
RejectedSubmitWritesNothing ==
    (SubmitClicked /\ (Falsy(call.args.date_input) \/ Falsy(call.args.collection_name))) =>
        /\ writes = <<>>
        /\ result.kind = "text"
        /\ result.msg = IF Falsy(call.args.collection_name) THEN ErrCollection
                        ELSE ErrDate

\* an empty date with a collection selected and entries held
RejectedSubmitWitness ==
    /\ script = "input"
    /\ SubmitClicked
    /\ call.args.date_input = Text("")
    /\ call.args.collection_name = Text("user1")
    /\ apps_data # <<>>
    /\ result.msg = ErrDate
    /\ writes = <<>>

-----------------------------------------------------------------------------
(* C8 *)

\* the entry an accepted form stands for
EntryOf(r) ==
    [name |-> NameOf(r),
     screenTime |-> Value(r.hours) * 3600 + Value(r.minutes) * 60 + Value(r.seconds),
     opens |-> Value(r.opens)]

\* the step is an accepted Add App click
AcceptedAddStep ==
    /\ call'.cb = "add_app_callback"
    /\ call'.args.triggered.t = "add"
    /\ call'.args.add_clicks > 0
    /\ ~InvalidInput(call'.args)

\* the step is a remove of an entry held
RemoveStep ==
    /\ call'.cb = "add_app_callback"
    /\ call'.args.triggered.t = "remove"
    /\ InList(call'.args.remove_clicks, call'.args.triggered.index)
    /\ ListAt(call'.args.remove_clicks, call'.args.triggered.index) > 0
    /\ 0 <= call'.args.triggered.index
    /\ call'.args.triggered.index < Len(apps_data)

\* the step is a submit that reaches the store
WritingSubmitStep ==
    /\ call'.cb = "submit_data_callback"
    /\ writes' # <<>>

\* C8: a submit leaves apps_data as it was, whether it is rejected (no
\* date, no collection), its store write fails (the failure is returned as
\* text) or the insert succeeds; and the steps after a submit are those of
\* any other moment: an accepted Add App click appends its entry, a remove
\* takes its entry out and a further submit writes the totals of the
\* entries then held.
SubmitKeepsStore ==
    /\ [](SubmitClicked => (apps_data = before /\ result.kind = "text"))
    /\ [][(call.cb = "submit_data_callback" /\ call.args.n_clicks > 0) =>
            /\ AcceptedAddStep => apps_data' = Append(apps_data, EntryOf(call'.args))
            /\ RemoveStep => apps_data' = Without(apps_data, call'.args.triggered.index + 1)
            /\ WritingSubmitStep =>
                  /\ apps_data' = apps_data
                  /\ writes'[1].document.summary.screenTime
                        = TotalOver(apps_data, Positions(apps_data), "screenTime")
                  /\ writes'[1].document.summary.unlocks
                        = TotalOver(apps_data, Positions(apps_data), "opens")
          ]_vars

\* a store write that failed while two entries were held: both are kept
SubmitKeepsStoreWitness ==
    /\ script = "input"
    /\ SubmitClicked
    /\ writes # <<>>
    /\ writes[1].raised
    /\ result.msg = ErrStore
    /\ Len(before) = 2
    /\ apps_data = before

-----------------------------------------------------------------------------
(* C9 *)

IntegerOrAbsent(x) == x.t \in {"int", "None"}
Given(x) == IF x.t = "int" THEN x.i ELSE 0

\* the form holds a name, integer (or absent) hours in 0..24, minutes and
\* seconds in 0..59 and opens of at least 0
AcceptableIntegers(r) ==
    /\ ~NameMissing(r)
    /\ \A k \in 1..4 : IntegerOrAbsent(NumericFields(r)[k])
    /\ Given(r.hours) \in 0..24
    /\ Given(r.minutes) \in 0..59
    /\ Given(r.seconds) \in 0..59
    /\ Given(r.opens) >= 0

MostSeconds == 24 * 3600 + 59 * 60 + 59

\* C9: the entry appended for an accepted form with integer hours h in
\* 0..24 and minutes m, seconds s in 0..59 (an absent field counting as 0)
\* has screenTime h*3600 + m*60 + s; and every entry held has a screenTime
\* from 0 to 24*3600 + 59*60 + 59 and opens of at least 0.
ScreenTimeIsSeconds ==
    script = "input" =>
        /\ (AddClicked /\ AcceptableIntegers(call.args)) =>
              /\ Len(apps_data) = Len(before) + 1
              /\ apps_data[Len(apps_data)].screenTime
                    = Given(call.args.hours) * 3600 + Given(call.args.minutes) * 60
                      + Given(call.args.seconds)
        /\ \A p \in Positions(apps_data) :
              /\ apps_data[p].screenTime >= 0
              /\ apps_data[p].screenTime <= MostSeconds
              /\ apps_data[p].opens >= 0

\* 24 h 59 min 59 s is accepted and gives the largest screenTime
ScreenTimeWitness ==
    /\ AddClicked
    /\ AcceptableIntegers(call.args)
    /\ call.args.hours = PyInt(24)
    /\ call.args.seconds = PyInt(59)
    /\ apps_data # <<>>
    /\ apps_data[Len(apps_data)].screenTime = MostSeconds

-----------------------------------------------------------------------------
(* C10 *)

\* C10: a remove with a positive click count and an index of the list
\* takes out the entry at that index and no other: the list is one shorter,
\* the entries before the index stay where they were, those after it move
\* down by one in the same order, and no entry changes.  A remove whose
\* click count is not positive takes nothing out.
RemoveTakesOneEntry ==
    RemoveTriggered =>
        /\ (RemoveCount > 0 /\ 0 <= RemoveIndex /\ RemoveIndex < Len(before)) =>
              /\ Len(apps_data) = Len(before) - 1
              /\ \A k \in 1..Len(apps_data) :
                    apps_data[k] = IF k <= RemoveIndex THEN before[k] ELSE before[k + 1]
        /\ RemoveCount <= 0 => apps_data = before

\* the middle one of three different entries is taken out
RemoveWitness ==
    /\ RemoveTriggered
    /\ RemoveCount > 0
    /\ RemoveIndex = 1
    /\ Len(before) = 3
    /\ before[1] # before[2]
    /\ before[2] # before[3]
    /\ apps_data = <<before[1], before[3]>>
====
